---- MODULE Spec2Model ----
(***************************************************************************)
(* Model of the evaluation-results tooling: the index of existing results  *)
(* (get_existing_eval_results), the submission routine                      *)
(* (create_eval_results_pr), its wrapper (open_pull_request) and the local  *)
(* writer (write_output).                                                   *)
(*                                                                          *)
(* Encodings.  A Python string that the code inspects (a dataset id) is a   *)
(* sequence of one-character strings.  An optional dataset id is a record   *)
(* [has_id, id]: has_id = FALSE stands for a record without dataset.id      *)
(* (r.get("dataset", {}).get("id") is None).  pr_num = NonePr stands for    *)
(* Python's None.  A repository path is a record [dir, stem, ext].          *)
(***************************************************************************)
EXTENDS Integers, Sequences, FiniteSets, TLC

(***************************************************************************)
(* Bounds of the model.                                                     *)
(***************************************************************************)
MaxCands == 2
MaxRecs == 2
MaxIdLen == 3
MaxMsgs == 2
MaxBlocks == 2

(***************************************************************************)
(* Strings.                                                                 *)
(***************************************************************************)
Alphabet == {"g", "G", "n", "/"}

Lower(c) ==
    CASE c = "G" -> "g"
      [] c = "N" -> "n"
      [] c = "M" -> "m"
      [] OTHER -> c

LowerStr(s) == [i \in 1..Len(s) |-> Lower(s[i])]

\* Positions of the separator in s.
SepPositions(s, sep) == {i \in 1..Len(s) : s[i] = sep}

\* s.split(sep): the segments between separators, left to right.
RECURSIVE Split(_, _)
Split(s, sep) ==
    IF SepPositions(s, sep) = {}
    THEN <<s>>
    ELSE LET i == CHOOSE k \in SepPositions(s, sep) :
                      \A j \in SepPositions(s, sep) : k <= j
         IN  <<SubSeq(s, 1, i - 1)>> \o Split(SubSeq(s, i + 1, Len(s)), sep)

Last(q) == q[Len(q)]

\* write_output: dataset_id.split("/")[-1].lower(), then f"{dataset_name}.yaml"
WriteOutputFilename(dataset_id) ==
    Append(LowerStr(Last(Split(dataset_id, "/"))), ".yaml")

\* create_eval_results_pr: the same two lines of the staging loop
\* Variant: the file name keeps the id's letter case.
StageDatasetNameNoLower(dataset_id) == Last(Split(dataset_id, "/"))

StageDatasetName(dataset_id) == LowerStr(Last(Split(dataset_id, "/")))

StageFilename(dataset_id) == Append(StageDatasetName(dataset_id), ".yaml")

\* All strings over the alphabet of length at most n.
RECURSIVE Strings(_)
Strings(n) ==
    IF n = 0 THEN {<<>>}
    ELSE Strings(n - 1) \cup
         {Append(s, c) : s \in {t \in Strings(n - 1) : Len(t) = n - 1}, c \in Alphabet}

(***************************************************************************)
(* Data pools.                                                              *)
(***************************************************************************)
\* Two benchmark identities that differ in namespace and letter case only.
DatasetIds == {<<"n", "/", "g">>, <<"m", "/", "G">>}

Values == {40, 42}

NonePr == 0

\* A candidate (one element of evaluation_results["evaluation_results"]).
Candidates ==
    {[has_id |-> TRUE, id |-> d, value |-> 42] : d \in DatasetIds}
    \cup {[has_id |-> FALSE, id |-> <<>>, value |-> 42]}

RECURSIVE SeqsUpTo(_, _)
SeqsUpTo(S, n) ==
    IF n = 0 THEN {<<>>}
    ELSE SeqsUpTo(S, n - 1) \cup
         {Append(q, x) : q \in {t \in SeqsUpTo(S, n - 1) : Len(t) = n - 1}, x \in S}

\* A record of a .eval_results file: a mapping (with or without dataset.id), or
\* something that is no mapping (result.get raises).
FileRecords ==
    {[is_map |-> TRUE, has_id |-> TRUE, id |-> <<"n", "/", "g">>, value |-> v] : v \in Values}
    \cup {[is_map |-> TRUE, has_id |-> TRUE, id |-> <<"m", "/", "G">>, value |-> 40]}
    \cup {[is_map |-> TRUE, has_id |-> FALSE, id |-> <<>>, value |-> 40]}
    \cup {[is_map |-> FALSE, has_id |-> FALSE, id |-> <<>>, value |-> 40]}

\* What downloading and parsing one file can give: an error of hf_hub_download,
\* an error of read_yaml, a document that is no non-empty list, or a non-empty list.
FileKinds == {"download_error", "parse_error", "not_a_list", "list"}

Paths ==
    {[dir |-> ".eval_results/", stem |-> s, ext |-> ".yaml"] : s \in {"f1", "f2"}}
    \cup {[dir |-> "", stem |-> "README", ext |-> ".md"],
          [dir |-> ".eval_results/", stem |-> "f1", ext |-> ".json"]}

Range(q) == {q[i] : i \in 1..Len(q)}

Injective(q) == \A i, j \in 1..Len(q) : q[i] = q[j] => i = j

\* A listing of a revision: distinct paths, in any order.
Listings == {q \in SeqsUpTo(Paths, Cardinality(Paths)) : Injective(q)}

\* f.startswith(".eval_results/") and f.endswith(".yaml")
IsEvalFile(f) == f.dir = ".eval_results/" /\ f.ext = ".yaml"

EvalFiles(files) == SelectSeq(files, IsEvalFile)

PrNums == {1, 2}

Discussions ==
    [num : PrNums, is_pull_request : BOOLEAN, status : {"open", "closed"}]

\* What get_repo_discussions lists: discussions with distinct numbers, in any order.
DiscussionLists ==
    {q \in SeqsUpTo(Discussions, Cardinality(PrNums)) :
        \A i, j \in 1..Len(q) : q[i].num = q[j].num => i = j}

IsOpenPr(d) == d.is_pull_request /\ d.status = "open"

OpenPrs(discussions) == SelectSeq(discussions, IsOpenPr)

(***************************************************************************)
(* State.                                                                   *)
(***************************************************************************)
VARIABLES
    entry,             \* the function the run calls: "create", "open_pull_request", "write_output"
    pc,                \* position in the code
    er_kind,           \* evaluation_results: "None", "no_key" ({}), or "list"
    candidates,        \* evaluation_results["evaluation_results"] as passed in
    skip_existing,     \* the skip_existing argument
    results,           \* the local variable results of create_eval_results_pr
    existing_results,  \* the dict get_existing_eval_results builds
    eval_files,        \* files left in the current for-loop over eval files (head = current)
    open_prs,          \* proposals left in the for-loop over open_prs (head = current)
    rec_i,             \* records of the current file's content already iterated
    dir_exists,        \* temp_dir exists on disk
    dir_files,         \* temp_dir's files: filename -> content
    temp_files,        \* the list temp_files
    operations,        \* the list operations
    stage_queue,       \* results left in the staging for-loop
    calls,             \* remote calls made so far (by kind)
    committed,         \* what create_commit received: <<[path_in_repo, content]>>
    ret,               \* outcome of create_eval_results_pr
    wrapper_ret,       \* outcome of open_pull_request
    out_files,         \* write_output's folder: filename -> content
    \* history of what the remote side held and of what went wrong
    main_last,         \* id -> the value read last from the main revision
    pr_first,          \* id -> the finding read first from a proposal
    pr_conflict,       \* an id not read from main was read from two proposals, values differing
    tainted,           \* ids whose entry was written from a file that then proved malformed
    unread,            \* ids the main revision records, when its listing failed
    read_ids,          \* ids read from the main revision or a proposal, once the scan is over
    backlog,           \* files and proposals listed for scanning and not yet attempted
    failed_step,       \* "none", or the submission step that raised
    created_dir,       \* this invocation's makedirs succeeded
    delete_failed,     \* an os.remove or os.rmdir call failed on its own account
    \* main
    open_pr,           \* the open_pr argument of main
    message_count,     \* the local variable message_count of main
    last_arrived,      \* the input of the last StructuredOutput block the agent streamed
    stream_raised      \* the stream ended by raising

inputVars == <<entry, er_kind, candidates, skip_existing>>
scanVars == <<existing_results, eval_files, open_prs, rec_i>>
stageVars == <<dir_exists, dir_files, temp_files, operations, stage_queue, committed>>
histVars == <<main_last, pr_first, pr_conflict, tainted, unread, read_ids, backlog>>
errVars == <<failed_step, created_dir, delete_failed>>
mainVars == <<open_pr, message_count, last_arrived, stream_raised>>
vars == <<entry, pc, er_kind, candidates, skip_existing, results, existing_results,
          eval_files, open_prs, rec_i, dir_exists, dir_files, temp_files, operations,
          stage_queue, calls, committed, ret, wrapper_ret, out_files, main_last,
          pr_first, pr_conflict, tainted, unread, read_ids, backlog, failed_step,
          created_dir,
          delete_failed, open_pr, message_count, last_arrived, stream_raised>>

EmptyMap == [x \in {} |-> x]

Put(m, k, v) == [x \in DOMAIN m \cup {k} |-> IF x = k THEN v ELSE m[x]]

\* Python truthiness of a record's dataset id
Truthy(r) == r.has_id /\ r.id # <<>>

(***************************************************************************)
(* get_existing_eval_results                                                *)
(***************************************************************************)
\* lines 68-75: the body of the loop over a main file's records (result a mapping).
MainInsert(existing, result, eval_file) ==
    IF Truthy(result)
    THEN Put(existing, result.id,
             [source |-> "main", pr_num |-> NonePr,
              value |-> result.value, file_path |-> eval_file])
    ELSE existing

\* Variant: a proposal's finding replaces whatever the dict holds.
PrInsertOverwrite(existing, result, eval_file, num) ==
    IF Truthy(result)
    THEN Put(existing, result.id,
             [source |-> "pr", pr_num |-> num,
              value |-> result.value, file_path |-> eval_file])
    ELSE existing

\* Variant: a proposal's finding replaces an earlier proposal's finding.
PrInsertLastPrWins(existing, result, eval_file, num) ==
    IF /\ Truthy(result)
       /\ (result.id \in DOMAIN existing => existing[result.id].source = "pr")
    THEN Put(existing, result.id,
             [source |-> "pr", pr_num |-> num,
              value |-> result.value, file_path |-> eval_file])
    ELSE existing

\* lines 122-129: the body of the loop over a proposal file's records.
PrInsert(existing, result, eval_file, num) ==
    IF Truthy(result) /\ result.id \notin DOMAIN existing
    THEN Put(existing, result.id,
             [source |-> "pr", pr_num |-> num,
              value |-> result.value, file_path |-> eval_file])
    ELSE existing

\* Where the loops go next.
AfterMainFile(files) ==
    IF Tail(files) = <<>> THEN "scan_list_prs" ELSE "scan_main_file"

AfterPr(prs) == IF Tail(prs) = <<>> THEN "filter" ELSE "scan_pr_list"

AfterPrFile(files, prs) ==
    IF Tail(files) = <<>> THEN AfterPr(prs) ELSE "scan_pr_file"

\* The entries of the dict written from one file.
EntriesOf(existing, source, num, eval_file) ==
    {d \in DOMAIN existing :
        /\ existing[d].source = source
        /\ existing[d].pr_num = num
        /\ existing[d].file_path = eval_file}

\* lines 45-49 and 78-79: list the main revision.
ListMainFiles ==
    /\ pc = "scan_list_main"
    /\ \E ok \in BOOLEAN, files \in Listings, hidden \in SUBSET DatasetIds :
        /\ ~ok => files = <<>>
        /\ ok => hidden = {}
        /\ eval_files' = IF ok THEN EvalFiles(files) ELSE <<>>
        /\ unread' = hidden
    /\ calls' = calls \cup {"list_repo_files"}
    /\ backlog' = backlog + Len(eval_files')
    /\ pc' = IF eval_files' = <<>> THEN "scan_list_prs" ELSE "scan_main_file"
    /\ UNCHANGED <<inputVars, mainVars, results, existing_results, open_prs, rec_i, stageVars,
                   ret, wrapper_ret, out_files, main_last, pr_first, pr_conflict,
                   tainted, read_ids, errVars>>

\* Variant: an error on one file ends the loop over the main revision's files.
ReadMainFileAbortOnError ==
    /\ pc = "scan_main_file"
    /\ \E kind \in FileKinds :
        /\ eval_files' = IF kind = "list" THEN eval_files
                          ELSE IF kind = "not_a_list" THEN Tail(eval_files) ELSE <<>>
        /\ pc' = IF kind = "list" THEN "scan_main_record"
                 ELSE IF kind = "not_a_list" THEN AfterMainFile(eval_files)
                 ELSE "scan_list_prs"
    /\ calls' = calls \cup {"hf_hub_download"}
    /\ backlog' = backlog - 1
    /\ UNCHANGED <<inputVars, mainVars, results, existing_results, open_prs, rec_i, stageVars,
                   ret, wrapper_ret, out_files, main_last, pr_first, pr_conflict,
                   tainted, unread, read_ids, errVars>>

\* lines 52-66 and 76-77: download and parse the next eval file of the main revision.
ReadMainFile ==
    /\ pc = "scan_main_file"
    /\ \E kind \in FileKinds :
        /\ eval_files' = IF kind = "list" THEN eval_files ELSE Tail(eval_files)
        /\ pc' = IF kind = "list" THEN "scan_main_record" ELSE AfterMainFile(eval_files)
    /\ calls' = calls \cup {"hf_hub_download"}
    /\ backlog' = backlog - 1
    /\ UNCHANGED <<inputVars, mainVars, results, existing_results, open_prs, rec_i, stageVars,
                   ret, wrapper_ret, out_files, main_last, pr_first, pr_conflict,
                   tainted, unread, read_ids, errVars>>

\* lines 67-77: one iteration of the loop over the records of a main file.  A
\* record that is no mapping raises in result.get and ends the file.
ScanMainRecord ==
    /\ pc = "scan_main_record"
    /\ \E result \in FileRecords, more \in BOOLEAN :
        LET eval_file == Head(eval_files)
            done == ~result.is_map \/ ~more
        IN
        /\ more => rec_i + 1 < MaxRecs /\ result.is_map
        /\ existing_results' =
               IF result.is_map
               THEN MainInsert(existing_results, result, eval_file)
               ELSE existing_results
        /\ main_last' =
               IF result.is_map /\ Truthy(result)
               THEN Put(main_last, result.id, result.value)
               ELSE main_last
        /\ tainted' =
               IF ~result.is_map
               THEN tainted \cup EntriesOf(existing_results, "main", NonePr, eval_file)
               ELSE IF Truthy(result) THEN tainted \ {result.id} ELSE tainted
        /\ rec_i' = IF done THEN 0 ELSE rec_i + 1
        /\ eval_files' = IF done THEN Tail(eval_files) ELSE eval_files
        /\ pc' = IF done THEN AfterMainFile(eval_files) ELSE pc
    /\ UNCHANGED <<inputVars, mainVars, results, open_prs, stageVars, calls, ret, wrapper_ret,
                   out_files, pr_first, pr_conflict, unread, backlog, read_ids, errVars>>

\* lines 82-88 and 134-135: list the discussions, keep the open pull requests.
ListDiscussions ==
    /\ pc = "scan_list_prs"
    /\ \E ok \in BOOLEAN, discussions \in DiscussionLists :
        /\ ~ok => discussions = <<>>
        /\ open_prs' = IF ok THEN OpenPrs(discussions) ELSE <<>>
    /\ calls' = calls \cup {"get_repo_discussions"}
    /\ backlog' = backlog + Len(open_prs')
    /\ pc' = IF open_prs' = <<>> THEN "filter" ELSE "scan_pr_list"
    /\ UNCHANGED <<inputVars, mainVars, results, existing_results, eval_files, rec_i, stageVars,
                   ret, wrapper_ret, out_files, main_last, pr_first, pr_conflict,
                   tainted, unread, read_ids, errVars>>

\* lines 90-99 and 132-133: list the files of the current proposal.
ListPrFiles ==
    /\ pc = "scan_pr_list"
    /\ \E ok \in BOOLEAN, files \in Listings :
        /\ ~ok => files = <<>>
        /\ eval_files' = IF ok THEN EvalFiles(files) ELSE <<>>
    /\ calls' = calls \cup {"list_repo_files"}
    /\ backlog' = backlog - 1 + Len(eval_files')
    /\ open_prs' = IF eval_files' = <<>> THEN Tail(open_prs) ELSE open_prs
    /\ pc' = IF eval_files' = <<>> THEN AfterPr(open_prs) ELSE "scan_pr_file"
    /\ UNCHANGED <<inputVars, mainVars, results, existing_results, rec_i, stageVars, ret,
                   wrapper_ret, out_files, main_last, pr_first, pr_conflict, tainted,
                   unread, read_ids, errVars>>

\* lines 105-120 and 130-131: download and parse the next eval file of the proposal.
ReadPrFile ==
    /\ pc = "scan_pr_file"
    /\ \E kind \in FileKinds :
        /\ eval_files' = IF kind = "list" THEN eval_files ELSE Tail(eval_files)
        /\ open_prs' = IF kind # "list" /\ Tail(eval_files) = <<>>
                       THEN Tail(open_prs) ELSE open_prs
        /\ pc' = IF kind = "list" THEN "scan_pr_record"
                 ELSE AfterPrFile(eval_files, open_prs)
    /\ calls' = calls \cup {"hf_hub_download"}
    /\ backlog' = backlog - 1
    /\ UNCHANGED <<inputVars, mainVars, results, existing_results, rec_i, stageVars, ret,
                   wrapper_ret, out_files, main_last, pr_first, pr_conflict, tainted,
                   unread, read_ids, errVars>>

\* lines 121-131: one iteration of the loop over the records of a proposal's file.
ScanPrRecord ==
    /\ pc = "scan_pr_record"
    /\ \E result \in FileRecords, more \in BOOLEAN :
        LET eval_file == Head(eval_files)
            pr == Head(open_prs)
            done == ~result.is_map \/ ~more
            read == result.is_map /\ Truthy(result)
        IN
        /\ more => rec_i + 1 < MaxRecs /\ result.is_map
        /\ existing_results' =
               IF result.is_map
               THEN PrInsert(existing_results, result, eval_file, pr.num)
               ELSE existing_results
        /\ pr_first' =
               IF read /\ result.id \notin DOMAIN pr_first
               THEN Put(pr_first, result.id, [pr_num |-> pr.num, value |-> result.value])
               ELSE pr_first
        /\ pr_conflict' =
               \/ pr_conflict
               \/ /\ read
                  /\ result.id \notin DOMAIN main_last
                  /\ result.id \in DOMAIN pr_first
                  /\ pr_first[result.id].pr_num # pr.num
                  /\ pr_first[result.id].value # result.value
        /\ tainted' =
               IF ~result.is_map
               THEN tainted \cup EntriesOf(existing_results, "pr", pr.num, eval_file)
               ELSE tainted
        /\ rec_i' = IF done THEN 0 ELSE rec_i + 1
        /\ eval_files' = IF done THEN Tail(eval_files) ELSE eval_files
        /\ open_prs' = IF done /\ Tail(eval_files) = <<>> THEN Tail(open_prs) ELSE open_prs
        /\ pc' = IF done THEN AfterPrFile(eval_files, open_prs) ELSE pc
    /\ UNCHANGED <<inputVars, mainVars, results, stageVars, calls, ret, wrapper_ret, out_files,
                   main_last, unread, backlog, read_ids, errVars>>

(***************************************************************************)
(* create_eval_results_pr                                                   *)
(***************************************************************************)
\* Variant: the existing results are fetched before the empty check.
CreateEvalResultsPrScanFirst ==
    /\ pc = "create"
    /\ results' = IF er_kind = "list" THEN candidates ELSE <<>>
    /\ ret' = IF results' = <<>> /\ ~skip_existing THEN "None" ELSE ret
    /\ pc' = IF skip_existing THEN "scan_list_main"
             ELSE IF results' = <<>> THEN "returned" ELSE "makedirs"
    /\ UNCHANGED <<inputVars, mainVars, scanVars, stageVars, calls, wrapper_ret, out_files,
                   histVars, errVars>>

\* lines 205-213: results = evaluation_results.get("evaluation_results", [])
CreateEvalResultsPr ==
    /\ pc = "create"
    /\ results' = IF er_kind = "list" THEN candidates ELSE <<>>
    /\ ret' = IF results' = <<>> THEN "None" ELSE ret
    /\ pc' = IF results' = <<>> THEN "returned"
             ELSE IF skip_existing THEN "scan_list_main" ELSE "makedirs"
    /\ UNCHANGED <<inputVars, mainVars, scanVars, stageVars, calls, wrapper_ret, out_files,
                   histVars, errVars>>

\* Variant: a record without an id counts as existing.
NotExistingDropsNoId(r, existing) == r.has_id /\ r.id \notin DOMAIN existing

\* lines 223-226: r.get("dataset", {}).get("id") not in existing_results.  A record
\* without an id gives None, which is no key of the dict.
NotExisting(r, existing) == ~r.has_id \/ r.id \notin DOMAIN existing

\* Variant: nothing is filtered out.
FilterResultsKeepAll(rs, existing) == rs

\* lines 223-226: the list comprehension.
RECURSIVE FilterResults(_, _)
FilterResults(rs, existing) ==
    IF rs = <<>> THEN <<>>
    ELSE (IF NotExisting(Head(rs), existing) THEN <<Head(rs)>> ELSE <<>>)
         \o FilterResults(Tail(rs), existing)

\* lines 215-234: filter out what exists; return None when nothing is left.
FilterExisting ==
    /\ pc = "filter"
    /\ results' = FilterResults(results, existing_results)
    /\ ret' = IF results' = <<>> THEN "None" ELSE ret
    /\ pc' = IF results' = <<>> THEN "returned" ELSE "makedirs"
    \* the dict is not read after this point: the model keeps only the ids
    \* that were read, and drops the history of the scan
    /\ existing_results' = EmptyMap
    /\ read_ids' = DOMAIN main_last \cup DOMAIN pr_first
    /\ main_last' = EmptyMap
    /\ pr_first' = EmptyMap
    /\ pr_conflict' = FALSE
    /\ tainted' = {}
    /\ UNCHANGED <<inputVars, mainVars, eval_files, open_prs, rec_i, stageVars, calls,
                   wrapper_ret, out_files, unread, backlog, errVars>>

\* lines 237-244: create temp_dir (outside the try block) and the empty lists.
Makedirs ==
    /\ pc = "makedirs"
    /\ \E ok \in BOOLEAN :
        /\ dir_exists' = ok
        /\ created_dir' = ok
        /\ ret' = IF ok THEN ret ELSE "raised"
        /\ failed_step' = IF ok THEN failed_step ELSE "makedirs"
        /\ pc' = IF ok THEN "stage" ELSE "returned"
    /\ temp_files' = <<>>
    /\ operations' = <<>>
    /\ stage_queue' = results
    /\ UNCHANGED <<inputVars, mainVars, results, scanVars, dir_files, committed, calls,
                   wrapper_ret, out_files, histVars, delete_failed>>

\* Variant: the except block logs and returns None.
OnSubmitErrorSwallowed == "None"

\* lines 315-317: the except block logs and re-raises.
OnSubmitError == "raised"

StageOutcomes == {"ok", "dump_error", "write_error", "operation_error"}

\* lines 248-284: one iteration of the staging loop.  dump_error: yaml.dump or
\* open() raises, no file appears.  write_error: f.write raises after open() has
\* created the file.  operation_error: CommitOperationAdd raises.
StageResult ==
    /\ pc = "stage"
    /\ \E outcome \in StageOutcomes :
        LET result == Head(stage_queue)
            dataset_id == IF result.has_id THEN result.id ELSE <<>>
            filename == StageFilename(dataset_id)
            skipped == dataset_id = <<>>
            raised == ~skipped /\ outcome # "ok"
        IN
        /\ skipped => outcome = "ok"
        /\ dir_files' =
               IF skipped \/ outcome = "dump_error" THEN dir_files
               ELSE IF outcome = "write_error" THEN Put(dir_files, filename, <<>>)
               ELSE Put(dir_files, filename, <<result>>)
        /\ temp_files' =
               IF ~skipped /\ outcome \in {"ok", "operation_error"}
               THEN Append(temp_files, filename)
               ELSE temp_files
        /\ operations' =
               IF ~skipped /\ outcome = "ok"
               THEN Append(operations,
                           [path_in_repo |-> <<".eval_results/">> \o filename,
                            path_or_fileobj |-> filename])
               ELSE operations
        /\ failed_step' = IF ~raised THEN failed_step
                          ELSE IF outcome = "operation_error" THEN "operation" ELSE "stage"
        /\ ret' = IF raised THEN OnSubmitError ELSE ret
        /\ stage_queue' = Tail(stage_queue)
        /\ pc' = IF raised THEN "finally"
                 ELSE IF stage_queue' = <<>> THEN "commit" ELSE "stage"
    /\ UNCHANGED <<inputVars, mainVars, results, scanVars, dir_exists, committed, calls,
                   wrapper_ret, out_files, histVars, created_dir, delete_failed>>

\* What create_commit uploads for the operations: each path with its file's content.
Upload(ops, files) ==
    [i \in 1..Len(ops) |->
        [path_in_repo |-> ops[i].path_in_repo, content |-> files[ops[i].path_or_fileobj]]]

\* lines 286-313: return None without operations, else create the commit as a PR.
CreateCommit ==
    /\ pc = "commit"
    /\ \E ok \in BOOLEAN :
        /\ operations = <<>> => ok
        /\ calls' = IF operations = <<>> THEN calls ELSE calls \cup {"create_commit"}
        /\ committed' = IF operations # <<>> /\ ok
                        THEN Upload(operations, dir_files) ELSE committed
        /\ ret' = IF operations = <<>> THEN "None"
                  ELSE IF ok THEN "url" ELSE OnSubmitError
        /\ failed_step' = IF ok THEN failed_step ELSE "commit"
    /\ pc' = "finally"
    /\ UNCHANGED <<inputVars, mainVars, results, scanVars, dir_exists, dir_files, temp_files,
                   operations, stage_queue, wrapper_ret, out_files, histVars,
                   created_dir, delete_failed>>

Restrict(m, S) == [x \in S |-> m[x]]

\* lines 318-329: remove every path of temp_files, then the directory if empty.
\* rm_fail: paths whose os.remove fails although the file is there; rmdir_fail:
\* os.rmdir fails although the directory is empty.  Both errors are swallowed.
Finally ==
    /\ pc = "finally"
    /\ \E rm_fail \in SUBSET (Range(temp_files) \cap DOMAIN dir_files), rmdir_fail \in BOOLEAN :
        LET removed == Range(temp_files) \ rm_fail
            left == DOMAIN dir_files \ removed
        IN
        /\ rmdir_fail => left = {}
        /\ dir_files' = Restrict(dir_files, left)
        /\ dir_exists' = (left # {} \/ rmdir_fail)
        /\ delete_failed' = (rm_fail # {} \/ rmdir_fail)
    /\ pc' = "returned"
    /\ UNCHANGED <<inputVars, mainVars, results, scanVars, temp_files, operations, stage_queue,
                   committed, calls, ret, wrapper_ret, out_files, histVars,
                   failed_step, created_dir>>

(***************************************************************************)
(* main.py: open_pull_request and write_output                              *)
(***************************************************************************)
\* lines 154-163: nothing to submit without evaluation_results or with no results.
OpenPullRequest ==
    /\ pc = "open_pull_request"
    /\ wrapper_ret' = IF er_kind # "list" \/ candidates = <<>> THEN "None" ELSE wrapper_ret
    /\ pc' = IF er_kind # "list" \/ candidates = <<>> THEN "done" ELSE "create"
    /\ UNCHANGED <<inputVars, mainVars, results, scanVars, stageVars, calls, ret, out_files,
                   histVars, errVars>>

\* lines 164-173: the result of create_eval_results_pr, or None when it raised.
OpenPullRequestReturn ==
    /\ pc = "returned"
    /\ entry \in {"open_pull_request", "main"}
    /\ wrapper_ret' = IF ret = "raised" THEN "None" ELSE ret
    /\ pc' = "done"
    /\ UNCHANGED <<inputVars, mainVars, results, scanVars, stageVars, calls, ret, out_files,
                   histVars, errVars>>

\* lines 118-137: the loop of write_output over the results.
RECURSIVE WriteAll(_, _)
WriteAll(files, rs) ==
    IF rs = <<>> THEN files
    ELSE LET result == Head(rs)
             dataset_id == IF result.has_id THEN result.id ELSE <<>>
         IN  IF dataset_id = <<>>
             THEN WriteAll(files, Tail(rs))
             ELSE WriteAll(Put(files, WriteOutputFilename(dataset_id), <<result>>), Tail(rs))

\* lines 107-141: write_output.
WriteOutput ==
    /\ pc = "write_output"
    /\ out_files' = WriteAll(out_files, IF er_kind = "list" THEN candidates ELSE <<>>)
    /\ pc' = IF entry = "main" THEN "main_open_pr" ELSE "done"
    /\ UNCHANGED <<inputVars, mainVars, results, scanVars, stageVars, calls, ret, wrapper_ret,
                   histVars, errVars>>

(***************************************************************************)
(* main.py: main                                                            *)
(***************************************************************************)
\* line 196: evaluation_results = None
NoneResults == [er_kind |-> "None", candidates |-> <<>>]

\* The input of a StructuredOutput block: {}, {"evaluation_results": []}, or one
\* record with a dataset id.
OutputInputs ==
    {[er_kind |-> "no_key", candidates |-> <<>>], [er_kind |-> "list", candidates |-> <<>>]}
    \cup {[er_kind |-> "list", candidates |-> <<c>>] : c \in {x \in Candidates : x.has_id}}

\* A content block of an AssistantMessage: a TextBlock, or a ToolUseBlock of the
\* Task tool or of the StructuredOutput tool (input: a dict).
Blocks ==
    {[type |-> "text", name |-> "", input |-> NoneResults]}
    \cup {[type |-> "tool_use", name |-> "Task",
           input |-> [er_kind |-> "no_key", candidates |-> <<>>]]}
    \cup {[type |-> "tool_use", name |-> "StructuredOutput", input |-> i] : i \in OutputInputs}

\* A message of the stream: an AssistantMessage, a ResultMessage, or another one.
Messages ==
    {[type |-> "assistant", content |-> c] : c \in SeqsUpTo(Blocks, MaxBlocks)}
    \cup {[type |-> "result", content |-> <<>>], [type |-> "other", content |-> <<>>]}

\* lines 216, 223: a ToolUseBlock named "StructuredOutput" (its input is a dict).
IsStructuredOutput(block) == block.type = "tool_use" /\ block.name = "StructuredOutput"

\* lines 213-224: the loop over message.content; each StructuredOutput block
\* assigns evaluation_results.
RECURSIVE HandleBlocks(_, _)
HandleBlocks(content, er) ==
    IF content = <<>> THEN er
    ELSE HandleBlocks(Tail(content),
                      IF IsStructuredOutput(Head(content)) THEN Head(content).input ELSE er)

\* lines 203-230: only an AssistantMessage can change evaluation_results.
HandleMessage(message, er) ==
    IF message.type = "assistant" THEN HandleBlocks(message.content, er) ELSE er

\* The input of the last StructuredOutput block of the stream, given the one before
\* the message arrived.
LastStreamed(message, before) ==
    LET outputs == SelectSeq(message.content, IsStructuredOutput)
    IN  IF outputs = <<>> THEN before ELSE outputs[Len(outputs)].input

\* lines 198-230: the stream yields a message and the loop body handles it.
MainReceive ==
    /\ pc = "main"
    /\ message_count < MaxMsgs
    /\ message_count' = message_count + 1
    /\ \E message \in Messages :
        LET er == HandleMessage(message, [er_kind |-> er_kind, candidates |-> candidates])
        IN
        /\ er_kind' = er.er_kind
        /\ candidates' = er.candidates
        /\ last_arrived' = LastStreamed(message, last_arrived)
    /\ UNCHANGED <<entry, pc, skip_existing, results, scanVars, stageVars, calls, ret,
                   wrapper_ret, out_files, histVars, errVars, open_pr, stream_raised>>

\* Variant: the except block forgets what was captured.
OnStreamErrorDiscards(er) == NoneResults

\* lines 231-235: the except block logs; evaluation_results stays as captured.
OnStreamError(er) == er

\* lines 198, 231-241: the stream ends, normally or by raising; then
\* write_output is called if evaluation_results is truthy.
MainStreamEnd ==
    /\ pc = "main"
    /\ \E raised \in BOOLEAN :
        LET captured == [er_kind |-> er_kind, candidates |-> candidates]
            er == IF raised THEN OnStreamError(captured) ELSE captured
        IN
        /\ stream_raised' = raised
        /\ er_kind' = er.er_kind
        /\ candidates' = er.candidates
        /\ pc' = IF er.er_kind = "list" THEN "write_output" ELSE "main_open_pr"
    /\ UNCHANGED <<entry, skip_existing, results, scanVars, stageVars, calls, ret,
                   wrapper_ret, out_files, histVars, errVars, open_pr, message_count,
                   last_arrived>>

\* lines 244-245: open_pull_request is called if open_pr is set.
MainOpenPr ==
    /\ pc = "main_open_pr"
    /\ pc' = IF open_pr THEN "open_pull_request" ELSE "done"
    /\ UNCHANGED <<inputVars, mainVars, results, scanVars, stageVars, calls, ret,
                   wrapper_ret, out_files, histVars, errVars>>

(***************************************************************************)
(* Specifications.                                                          *)
(***************************************************************************)
InitRest ==
    /\ pc = entry
    /\ results = <<>>
    /\ existing_results = EmptyMap
    /\ eval_files = <<>>
    /\ open_prs = <<>>
    /\ rec_i = 0
    /\ dir_exists = FALSE
    /\ dir_files = EmptyMap
    /\ temp_files = <<>>
    /\ operations = <<>>
    /\ stage_queue = <<>>
    /\ calls = {}
    /\ committed = <<>>
    /\ ret = "pending"
    /\ wrapper_ret = "pending"
    /\ out_files = EmptyMap
    /\ main_last = EmptyMap
    /\ pr_first = EmptyMap
    /\ pr_conflict = FALSE
    /\ tainted = {}
    /\ unread = {}
    /\ read_ids = {}
    /\ backlog = 0
    /\ failed_step = "none"
    /\ created_dir = FALSE
    /\ delete_failed = FALSE
    /\ message_count = 0
    /\ last_arrived = NoneResults
    /\ stream_raised = FALSE

Init ==
    /\ entry \in {"create", "open_pull_request", "write_output"}
    /\ er_kind \in {"None", "no_key", "list"}
    /\ er_kind = "None" => entry = "open_pull_request"
    /\ candidates \in SeqsUpTo(Candidates, MaxCands)
    /\ er_kind # "list" => candidates = <<>>
    /\ skip_existing \in BOOLEAN
    /\ entry # "create" => skip_existing
    \* a direct call with skip_existing = True and results to submit is the call
    \* open_pull_request makes: it is run from there
    /\ entry = "create" /\ candidates # <<>> => ~skip_existing
    /\ open_pr = FALSE
    /\ InitRest

Next ==
    \/ CreateEvalResultsPr
    \/ ListMainFiles
    \/ ReadMainFile
    \/ ScanMainRecord
    \/ ListDiscussions
    \/ ListPrFiles
    \/ ReadPrFile
    \/ ScanPrRecord
    \/ FilterExisting
    \/ Makedirs
    \/ StageResult
    \/ CreateCommit
    \/ Finally
    \/ OpenPullRequest
    \/ OpenPullRequestReturn
    \/ WriteOutput

Spec == Init /\ [][Next]_vars

\* The two writers on one record each, its dataset id any string over the alphabet.
InitName ==
    /\ entry \in {"create", "write_output"}
    /\ er_kind = "list"
    /\ candidates \in {<<[has_id |-> TRUE, id |-> d, value |-> 42]>> : d \in Strings(MaxIdLen)}
    /\ skip_existing = FALSE
    /\ open_pr = FALSE
    /\ InitRest

NextName ==
    \/ WriteOutput
    \/ CreateEvalResultsPr
    \/ Makedirs
    \/ StageResult
    \/ CreateCommit
    \/ Finally

SpecName == InitName /\ [][NextName]_vars

\* A run of main: nothing captured yet; open_pull_request calls
\* create_eval_results_pr with skip_existing at its default, True.
InitMain ==
    /\ entry = "main"
    /\ er_kind = "None"
    /\ candidates = <<>>
    /\ skip_existing = TRUE
    /\ open_pr \in BOOLEAN
    /\ InitRest

NextMain ==
    \/ MainReceive
    \/ MainStreamEnd
    \/ WriteOutput
    \/ MainOpenPr
    \/ OpenPullRequest
    \/ CreateEvalResultsPr
    \/ ListMainFiles
    \/ ReadMainFile
    \/ ScanMainRecord
    \/ ListDiscussions
    \/ ListPrFiles
    \/ ReadPrFile
    \/ ScanPrRecord
    \/ FilterExisting
    \/ Makedirs
    \/ StageResult
    \/ CreateCommit
    \/ Finally
    \/ OpenPullRequestReturn

SpecMain == InitMain /\ [][NextMain]_vars

(***************************************************************************)
(* Properties.                                                              *)
(***************************************************************************)
ScanPcs ==
    {"scan_list_main", "scan_main_file", "scan_main_record", "scan_list_prs",
     "scan_pr_list", "scan_pr_file", "scan_pr_record", "filter"}

IdsRead == DOMAIN main_last \cup DOMAIN pr_first

\* R is C restricted to the positions whose id is no key, in C's order.
IsExactSubsequence(R, C, keys) ==
    LET kept == {i \in 1..Len(C) : ~(C[i].has_id /\ C[i].id \in keys)} IN
    /\ Len(R) = Cardinality(kept)
    /\ \E f \in [1..Len(R) -> kept] :
        /\ \A j, k \in 1..Len(R) : j < k => f[j] < f[k]
        /\ \A k \in 1..Len(R) : R[k] = C[f[k]]

\* C1: the filtering step leaves exactly the subsequence of the candidates whose
\* dataset.id is no key of the existing-results dict: order kept, nothing with an
\* existing id kept, nothing else dropped (records without an id are kept).
C1_FilterIsExactSubsequence ==
    [][pc = "filter" =>
           IsExactSubsequence(results', results, DOMAIN existing_results)]_vars

C1_Witness ==
    /\ pc = "makedirs"
    /\ skip_existing
    /\ Len(results) < Len(candidates)
    /\ \E i \in 1..Len(results) : ~results[i].has_id

\* C2: an id read from a file of the main revision is in the dict with source
\* "main", pr_num None and the value read from main; no proposal replaces it.
C2_MainTakesPrecedence ==
    \A d \in DOMAIN main_last :
        /\ d \in DOMAIN existing_results
        /\ existing_results[d].source = "main"
        /\ existing_results[d].pr_num = NonePr
        /\ existing_results[d].value = main_last[d]

C2_Witness ==
    /\ pc = "filter"
    /\ \E d \in DOMAIN main_last \cap DOMAIN pr_first :
        pr_first[d].value # main_last[d]

\* C3: an id not read from the main revision and read from proposals is in the
\* dict with source "pr" and the number and value of the finding read first;
\* proposals enumerated later do not replace it.
C3_FirstProposalWins ==
    \A d \in DOMAIN pr_first \ DOMAIN main_last :
        /\ d \in DOMAIN existing_results
        /\ existing_results[d].source = "pr"
        /\ existing_results[d].pr_num = pr_first[d].pr_num
        /\ existing_results[d].value = pr_first[d].value

C3_Witness ==
    /\ pc = "filter"
    /\ pr_conflict
    /\ unread = {}
    /\ DOMAIN pr_first \ DOMAIN main_last # {}

NoCandidates == er_kind # "list" \/ candidates = <<>>

\* C4: with no candidates the call returns None, makes no remote call and creates
\* no staging directory, whatever skip_existing is.
C4_EmptyInputIsNoOp ==
    (NoCandidates /\ entry # "write_output") =>
        /\ calls = {}
        /\ ~dir_exists /\ ~created_dir
        /\ pc \in {"create", "open_pull_request", "returned", "done"}
        /\ (pc = "returned" => ret = "None")
        /\ (pc = "done" => wrapper_ret = "None" /\ ret = "pending")

C4_Witness ==
    /\ entry = "create"
    /\ skip_existing
    /\ er_kind = "list"
    /\ pc = "returned"
    /\ ret = "None"
    /\ candidates = <<>>

CommittedIds ==
    {committed[i].content[1].id :
        i \in {j \in 1..Len(committed) : committed[j].content # <<>>}}

AllCandidatesIn(S) ==
    \A i \in 1..Len(candidates) : candidates[i].has_id /\ candidates[i].id \in S

\* C5 as stated: with skip_existing, no add-file operation is committed for an id
\* the main revision or an open proposal records, and when the main revision
\* records every candidate's id the call returns None without create_commit.
C5_NoDuplicateOfRecorded ==
    skip_existing =>
        /\ CommittedIds \cap (read_ids \cup unread) = {}
        /\ (pc = "returned" /\ AllCandidatesIn(read_ids \cup unread)) =>
               (ret = "None" /\ "create_commit" \notin calls)

\* C5 amended: with skip_existing, no add-file operation is committed for an id
\* the scan read from the main revision or an open proposal, and when it read
\* every candidate's id the call returns None without create_commit.
C5_NoDuplicateOfRead ==
    skip_existing =>
        /\ CommittedIds \cap read_ids = {}
        /\ (pc = "returned" /\ AllCandidatesIn(read_ids)) =>
               (ret = "None" /\ "create_commit" \notin calls /\ committed = <<>>)

C5_Witness ==
    /\ skip_existing
    /\ committed # <<>>
    /\ read_ids # {}
    /\ Len(results) < Len(candidates)

\* C6: when an invocation that created the staging directory has ended, and no
\* delete call failed on its own account, the directory and its files are gone.
C6_StagingRemoved ==
    (pc \in {"returned", "done"} /\ created_dir /\ ~delete_failed) =>
        (~dir_exists /\ DOMAIN dir_files = {})

\* C7: the scan never raises; the dict holds findings read from files that were
\* listed, downloaded and parsed, and all of those; a failure leaves no listed
\* file or proposal unattempted.
C7_ScanContainsFailures ==
    pc \in ScanPcs =>
        /\ ret = "pending" /\ failed_step = "none"
        /\ DOMAIN existing_results = IdsRead
        /\ (pc = "filter" => backlog = 0)

C7_Witness ==
    /\ pc = "filter"
    /\ unread # {}
    /\ DOMAIN existing_results # {}

\* C8: a failure of staging, of operation building or of create_commit leaves
\* create_eval_results_pr raising: no URL, no None; open_pull_request alone
\* turns it into None.
C8_SubmitFailurePropagates ==
    failed_step \in {"stage", "operation", "commit"} =>
        /\ ret = "raised"
        /\ committed = <<>>
        /\ (entry = "create" => wrapper_ret = "pending")
        /\ (pc = "done" => wrapper_ret = "None")

C8_Witness ==
    /\ pc = "done"
    /\ failed_step = "commit"
    /\ ret = "raised"
    /\ wrapper_ret = "None"

\* The substring of s after its last "/", in lower case, followed by ".yaml".
AfterLastSlash(s) ==
    LET ps == SepPositions(s, "/")
        k  == IF ps = {} THEN 0 ELSE CHOOSE p \in ps : \A q \in ps : q <= p
    IN  SubSeq(s, k + 1, Len(s))

ExpectedFilename(s) == Append(LowerStr(AfterLastSlash(s)), ".yaml")

\* C9: both writers name the file of a record by the substring of its dataset.id
\* after the last "/", lower-cased, plus ".yaml"; ids that differ in letter case
\* or namespace only get the same name from both.
C9_FilenameFromIdAlone ==
    LET d == candidates[1].id IN
    Len(candidates) = 1 =>
        /\ DOMAIN out_files \subseteq {ExpectedFilename(d)}
        /\ DOMAIN dir_files \subseteq {ExpectedFilename(d)}
        /\ (pc = "done" /\ d # <<>> => DOMAIN out_files = {ExpectedFilename(d)})
        /\ (pc = "commit" /\ d # <<>> => DOMAIN dir_files = {ExpectedFilename(d)})
        /\ \A t \in Strings(MaxIdLen) :
               LowerStr(AfterLastSlash(t)) = LowerStr(AfterLastSlash(d)) =>
                   /\ StageFilename(t) = ExpectedFilename(d)
                   /\ WriteOutputFilename(t) = ExpectedFilename(d)

C9_Witness ==
    /\ pc = "commit"
    /\ candidates[1].id = <<"n", "/", "G">>
    /\ DOMAIN dir_files = {<<"g", ".yaml">>}

\* C10: a file that fails to parse or holds a record that is no mapping leaves no
\* entry in the dict the scan returns.
C10_MalformedFileContributesNothing ==
    pc = "filter" => tainted = {}

\* The paths the add-file operations target, in order.
OperationPaths == [i \in 1..Len(operations) |-> operations[i].path_in_repo]

\* C11: when create_commit has been called, the add-file operations correspond one
\* to one to the files of the staging directory: as many operations as files, no
\* two operations on the same path, and one record in each staged file.
C11_OperationsMatchStagedFiles ==
    (pc = "finally" /\ "create_commit" \in calls) =>
        /\ Len(operations) = Cardinality(DOMAIN dir_files)
        /\ Injective(OperationPaths)
        /\ \A f \in DOMAIN dir_files : Len(dir_files[f]) = 1

\* What main has captured so far.
Captured == [er_kind |-> er_kind, candidates |-> candidates]

\* The records create_commit received.
CommittedRecords ==
    UNION {Range(committed[i].content) : i \in 1..Len(committed)}

\* C12: main handles the messages as they arrive, so what it has captured is at
\* every moment the input of the last StructuredOutput block streamed so far, also
\* after the stream has ended or raised; when main is done, the local files are the
\* ones write_output writes for that input and, if open_pr is set,
\* open_pull_request has run on that input; when no such block arrived, nothing
\* is written, no remote call is made and nothing is committed.
C12_LastStructuredOutputIsUsed ==
    entry = "main" =>
        /\ Captured = last_arrived
        /\ pc # "done" => ENABLED NextMain
        /\ CommittedRecords \subseteq Range(last_arrived.candidates)
        /\ pc = "done" =>
            /\ out_files = WriteAll(EmptyMap, last_arrived.candidates)
            /\ open_pr => wrapper_ret # "pending"
            /\ (open_pr /\ last_arrived.candidates # <<>>) =>
                   (ret # "pending" /\ "list_repo_files" \in calls)
            /\ ~open_pr => (wrapper_ret = "pending" /\ calls = {})
        /\ last_arrived = NoneResults =>
               (out_files = EmptyMap /\ calls = {} /\ committed = <<>> /\ ~dir_exists)

\* The stream raised after two messages, the second one's StructuredOutput block
\* replacing the first one's input; the files were written and the proposal created.
C12_Witness ==
    /\ entry = "main"
    /\ pc = "done"
    /\ stream_raised
    /\ message_count = 2
    /\ open_pr
    /\ last_arrived.candidates # <<>>
    /\ out_files # EmptyMap
    /\ wrapper_ret = "url"
    /\ CommittedRecords = Range(last_arrived.candidates)

====
